---- MODULE Spec2Model ----
\* Brief (Article_reader) web client: the App component's state, its
\* handleSubmit pipeline (extract -> summarize -> record), the history
\* handlers and the two backend calls of services/api.ts.
EXTENDS Integers, Sequences, FiniteSets, TLC

VARIABLES
    state,      \* AppState of App.tsx (useState)
    storage,    \* localStorage entry under HISTORY_KEY
    mounted,    \* the mount effects have run
    pc,         \* position of the running handleSubmit: idle / extract / summarize
    closure,    \* the `state` the running handleSubmit closed over
    extracted,  \* { title, content } returned by extractArticle
    net,        \* the outstanding fetch: none / pending / lost (never answered)
    reqs,       \* requests issued by the current (or last) submission
    resps,      \* responses received by the current (or last) submission
    nextId,     \* number of records created so far (ids are fresh)
    submits,    \* number of handleSubmit runs that entered loading
    edits       \* number of user actions other than submit (edits, select, discard)

vars == <<state, storage, mounted, pc, closure, extracted, net, reqs, resps,
          nextId, submits, edits>>

\* ---------------------------------------------------------------- bounds
MaxSubmits == 2
MaxEdits == 3

\* ------------------------------------------------------ program constants
HistoryCap == 10
SnippetChars == 500
InitialMaxWords == 250

WordBudgetOptions == {150, 300, 500}
SummaryFormat == {"BULLET_POINTS", "PARAGRAPH"}
ModelType == {"gpt", "gemini"}

ExtractDefaultMessage == "Failed to extract article content"
SummarizeDefaultMessage == "Failed to generate summary"
ExtractFallbackMessage == "An error occurred while extracting the article"
SummarizeFallbackMessage == "An error occurred while generating the summary"
SubmitFallbackMessage == "Analysis failed. Please check the URL."

\* ------------------------------------------------------------ input sets
\* Texts are modelled by their size: an article content by its number of
\* characters, a summary by its number of words.
GoodUrl == "https://a.example/post"
Urls == {"", "not a url", GoodUrl}
Titles == {"", "T"}
Contents == {120, 900}
Summaries == {100, 600}
Timestamps == {1}
Details == {"D"}
ErrorStatuses == {429, 503}

NULL == "null"
NoRecord == [id |-> 0]
NoClosure == [url |-> "", format |-> "", maxWords |-> 0, selectedModel |-> ""]
NoExtract == [title |-> "", content |-> 0]

Min(a, b) == IF a <= b THEN a ELSE b

Take(s, n) == SubSeq(s, 1, Min(n, Len(s)))

\* new URL(u): throws unless u parses as an absolute URL
ParsesAsURL(u) == u = GoodUrl

\* ------------------------------------------------------ backend responses
\* delivered = FALSE: fetch rejected (network failure).  json: the body parses
\* as JSON.  detail: the body's `detail` ("" when absent).
Response(delivered, status, json, detail, title, content, summary) ==
    [delivered |-> delivered, status |-> status, json |-> json, detail |-> detail,
     title |-> title, content |-> content, summary |-> summary]

NetworkFailure == Response(FALSE, 0, FALSE, "", "", 0, 0)

ErrorResponses ==
    {Response(TRUE, s, TRUE, d, "", 0, 0) : s \in ErrorStatuses, d \in Details \cup {""}}
    \cup {Response(TRUE, s, FALSE, "", "", 0, 0) : s \in {500, 200}}
    \cup {NetworkFailure}

ExtractResponses ==
    {Response(TRUE, 200, TRUE, "", t, c, 0) : t \in Titles, c \in Contents}
    \cup ErrorResponses

SummarizeResponses ==
    {Response(TRUE, 200, TRUE, "", "", 0, s) : s \in Summaries}
    \cup ErrorResponses

\* response.ok
ResponseOk(r) == r.delivered /\ r.status \in 200..299

\* thrown values and returned values of the two api calls
Throw(isError, message) ==
    [ok |-> FALSE, isError |-> isError, message |-> message,
     title |-> "", content |-> 0, summary |-> 0]

Return(title, content, summary) ==
    [ok |-> TRUE, isError |-> FALSE, message |-> "",
     title |-> title, content |-> content, summary |-> summary]

\* the catch block of both api calls: rethrow Errors, wrap anything else
Rethrow(out, fallback) ==
    IF out.ok \/ out.isError THEN out ELSE Throw(TRUE, fallback)

\* the try block of both api calls, up to the parsed success body
CallBody(r, default) ==
    IF ~r.delivered THEN Throw(TRUE, "Failed to fetch")
    ELSE IF ~r.json THEN Throw(TRUE, "Unexpected token < in JSON")
    ELSE IF ~ResponseOk(r)
         THEN Throw(TRUE, IF r.detail # "" THEN r.detail ELSE default)
    ELSE Return(r.title, r.content, r.summary)

\* extractArticle without the `if (!response.ok)` check
extractArticleNoOkCheck(r) ==
    IF r.delivered /\ r.json THEN Return(r.title, r.content, r.summary)
    ELSE Rethrow(CallBody(r, ExtractDefaultMessage), ExtractFallbackMessage)

\* extractArticle that rejects an article without a title
extractArticleRequireTitle(r) ==
    LET out == Rethrow(CallBody(r, ExtractDefaultMessage), ExtractFallbackMessage)
    IN  IF out.ok /\ out.title = "" THEN Throw(TRUE, ExtractDefaultMessage) ELSE out

extractArticle(r) ==
    Rethrow(CallBody(r, ExtractDefaultMessage), ExtractFallbackMessage)

summarizeArticle(r) ==
    Rethrow(CallBody(r, SummarizeDefaultMessage), SummarizeFallbackMessage)

\* ------------------------------------------------------------- requests
ExtractRequest(url) ==
    [endpoint |-> "extract", url |-> url, title |-> "", content |-> 0,
     format |-> "", maxWords |-> 0, model |-> ""]

\* a summarize request that sends the stored snippet instead of the full content
SummarizeRequestSnippet(title, content, format, maxWords, model) ==
    [endpoint |-> "summarize", url |-> "", title |-> title,
     content |-> Min(content, SnippetChars) + 3,
     format |-> format, maxWords |-> maxWords, model |-> model]

SummarizeRequest(title, content, format, maxWords, model) ==
    [endpoint |-> "summarize", url |-> "", title |-> title, content |-> content,
     format |-> format, maxWords |-> maxWords, model |-> model]

\* ---------------------------------------------------------------- records
\* content.substring(0, 500) + "..."
Snippet(content) == Min(content, SnippetChars) + 3

NewRecord(id, st, title, content, summaryText, now) ==
    [id |-> id, url |-> st.url, title |-> title, content |-> Snippet(content),
     summary |-> summaryText, format |-> st.format, maxWords |-> st.maxWords,
     model |-> st.selectedModel, timestamp |-> now]

\* a record written by an earlier session of the app
StoredRecord(k) ==
    [id |-> 100 + k, url |-> GoodUrl, title |-> "T", content |-> Snippet(900),
     summary |-> 100, format |-> "PARAGRAPH", maxWords |-> 150,
     model |-> "gemini", timestamp |-> 1]

StoredHistory(n) == [k \in 1..n |-> StoredRecord(k)]

NoStorage == [present |-> FALSE, value |-> <<>>]
Stored(h) == [present |-> TRUE, value |-> h]

StoredChoices ==
    {NoStorage, Stored(StoredHistory(HistoryCap - 1)), Stored(StoredHistory(HistoryCap))}

\* ---------------------------------------------------------- state updaters
InitialState ==
    [url |-> "", format |-> "BULLET_POINTS", maxWords |-> InitialMaxWords,
     selectedModel |-> "gpt", isLoading |-> FALSE, error |-> NULL,
     history |-> <<>>, currentSummary |-> NoRecord]

\* a handleSubmit that reads the latest state instead of its closure
HandlerStateLatest(captured, latest) == latest

\* the `state` a handleSubmit run reads: the one of the render it was created in
HandlerState(captured, latest) == captured

Captured(st) ==
    [url |-> st.url, format |-> st.format, maxWords |-> st.maxWords,
     selectedModel |-> st.selectedModel]

SubmitStart(prev) == [prev EXCEPT !.isLoading = TRUE, !.error = NULL]

\* the history update without .slice(0, 10)
PushHistoryUncapped(record, history) == <<record>> \o history

PushHistory(record, history) == Take(<<record>> \o history, HistoryCap)

SubmitSuccess(prev, newRecord) ==
    [prev EXCEPT !.isLoading = FALSE,
                 !.currentSummary = newRecord,
                 !.history = PushHistory(newRecord, prev.history),
                 !.url = ""]

\* a catch block that also clears the url field, as the success path does
SubmitFailureClearsUrl(prev, err) ==
    [prev EXCEPT !.isLoading = FALSE,
                 !.url = "",
                 !.error = IF err.isError THEN err.message ELSE SubmitFallbackMessage]

SubmitFailure(prev, err) ==
    [prev EXCEPT !.isLoading = FALSE,
                 !.error = IF err.isError THEN err.message ELSE SubmitFallbackMessage]

SelectUpdate(prev, record) == [prev EXCEPT !.currentSummary = record]

FilterOut(history, id) ==
    LET Keep(item) == item.id # id IN SelectSeq(history, Keep)

\* a deleteHistoryItem that leaves currentSummary as it is
DeleteUpdateKeepsCurrent(prev, id) ==
    [prev EXCEPT !.history = FilterOut(prev.history, id)]

DeleteUpdate(prev, id) ==
    [prev EXCEPT !.history = FilterOut(prev.history, id),
                 !.currentSummary =
                     IF prev.currentSummary.id = id THEN NoRecord ELSE prev.currentSummary]

\* useEffect on [state.history]: localStorage.setItem(HISTORY_KEY, ...)
SaveHistory(history) == Stored(history)

\* ---------------------------------------------------------------- actions
Init ==
    /\ state = InitialState
    /\ storage \in StoredChoices
    /\ mounted = FALSE
    /\ pc = "idle"
    /\ closure = NoClosure
    /\ extracted = NoExtract
    /\ net = "none"
    /\ reqs = <<>>
    /\ resps = <<>>
    /\ nextId = 0
    /\ submits = 0
    /\ edits = 0

\* how many times React runs the mount effects before the next render
MountRuns == {1, 2}

\* one run of the two effects in the first render: the load effect queues an
\* updater when an entry is saved, the save effect writes that render's
\* state.history (the initial one)
EffectsRun(m) ==
    [pending |-> IF m.storage.present
                 THEN Append(m.pending, m.storage.value)
                 ELSE m.pending,
     storage |-> SaveHistory(InitialState.history)]

RECURSIVE EffectsRuns(_, _)
EffectsRuns(m, n) == IF n = 0 THEN m ELSE EffectsRuns(EffectsRun(m), n - 1)

\* the queued updaters prev => ({ ...prev, history: parsed }), applied in order
RECURSIVE ApplyUpdaters(_, _)
ApplyUpdaters(history, pending) ==
    IF pending = <<>> THEN history
    ELSE ApplyUpdaters(Head(pending), Tail(pending))

\* the mount effects, the render of the queued updates, and the save effect
\* of that render (it runs when state.history was replaced)
Mount ==
    /\ ~mounted
    /\ mounted' = TRUE
    /\ \E runs \in MountRuns :
        LET m == EffectsRuns([pending |-> <<>>, storage |-> storage], runs)
            h == ApplyUpdaters(state.history, m.pending)
        IN  /\ state' = [state EXCEPT !.history = h]
            /\ storage' = IF m.pending # <<>> THEN SaveHistory(h) ELSE m.storage
    /\ UNCHANGED <<pc, closure, extracted, net, reqs, resps, nextId, submits, edits>>

Edit(field, value) ==
    /\ mounted
    /\ edits < MaxEdits
    /\ state[field] # value
    /\ state' = [state EXCEPT ![field] = value]
    /\ edits' = edits + 1
    /\ UNCHANGED <<storage, mounted, pc, closure, extracted, net, reqs, resps,
                   nextId, submits>>

EditUrl == \E u \in Urls : Edit("url", u)

SetModel == \E m \in ModelType : Edit("selectedModel", m)

SetFormat == \E f \in SummaryFormat : Edit("format", f)

SetMaxWords == \E w \in WordBudgetOptions : Edit("maxWords", w)

\* a submit button that is never disabled
CanSubmitWhileLoading == mounted

\* the submit button is disabled while state.isLoading
CanSubmit == mounted /\ ~state.isLoading

\* a handleSubmit without the empty-url guard
EarlyReturnNever(url) == FALSE

\* if (!state.url) return
EarlyReturn(url) == url = ""

\* handleSubmit with an empty url: returns at once
SubmitEmpty ==
    /\ CanSubmit
    /\ EarlyReturn(state.url)
    /\ UNCHANGED vars

\* handleSubmit, new URL(state.url) throws: both setState calls in one run
SubmitInvalidUrl ==
    /\ CanSubmit
    /\ submits < MaxSubmits
    /\ ~EarlyReturn(state.url)
    /\ ~ParsesAsURL(state.url)
    /\ state' = SubmitFailure(SubmitStart(state), Throw(TRUE, "Invalid URL"))
    /\ closure' = Captured(state)
    /\ extracted' = NoExtract
    /\ reqs' = <<>>
    /\ resps' = <<>>
    /\ submits' = submits + 1
    /\ UNCHANGED <<storage, mounted, pc, net, nextId, edits>>

\* handleSubmit up to the first await: the extract request is sent
Submit ==
    /\ CanSubmit
    /\ submits < MaxSubmits
    /\ ~EarlyReturn(state.url)
    /\ ParsesAsURL(state.url)
    /\ state' = SubmitStart(state)
    /\ closure' = Captured(state)
    /\ extracted' = NoExtract
    /\ pc' = "extract"
    /\ net' = "pending"
    /\ reqs' = <<ExtractRequest(state.url)>>
    /\ resps' = <<>>
    /\ submits' = submits + 1
    /\ UNCHANGED <<storage, mounted, nextId, edits>>

\* the backend never answers the outstanding request
NetworkHang ==
    /\ net = "pending"
    /\ net' = "lost"
    /\ UNCHANGED <<state, storage, mounted, pc, closure, extracted, reqs, resps,
                   nextId, submits, edits>>

Fail(out) ==
    /\ state' = SubmitFailure(state, out)
    /\ pc' = "idle"
    /\ net' = "none"
    /\ UNCHANGED <<storage, mounted, closure, nextId, submits, edits>>

\* the extract response arrives: continue with summarizeArticle, or the catch block
ExtractResponds ==
    /\ pc = "extract"
    /\ net = "pending"
    /\ \E r \in ExtractResponses :
        LET out == extractArticle(r)
            st  == HandlerState(closure, Captured(state))
        IN  /\ resps' = Append(resps, r)
            /\ IF out.ok
               THEN /\ extracted' = [title |-> out.title, content |-> out.content]
                    /\ reqs' = Append(reqs, SummarizeRequest(out.title, out.content,
                                        st.format, st.maxWords, st.selectedModel))
                    /\ pc' = "summarize"
                    /\ net' = "pending"
                    /\ UNCHANGED <<state, storage, mounted, closure, nextId, submits, edits>>
               ELSE /\ Fail(out)
                    /\ UNCHANGED <<extracted, reqs>>

\* the summarize response arrives: build and store the record, or the catch block
SummarizeResponds ==
    /\ pc = "summarize"
    /\ net = "pending"
    /\ \E r \in SummarizeResponses, now \in Timestamps :
        LET out == summarizeArticle(r)
            st  == HandlerState(closure, Captured(state))
            newRecord == NewRecord(nextId + 1, st, extracted.title, extracted.content,
                                   out.summary, now)
        IN  /\ resps' = Append(resps, r)
            /\ IF out.ok
               THEN /\ state' = SubmitSuccess(state, newRecord)
                    /\ storage' = SaveHistory(state'.history)
                    /\ nextId' = nextId + 1
                    /\ pc' = "idle"
                    /\ net' = "none"
                    /\ UNCHANGED <<mounted, closure, extracted, reqs, submits, edits>>
               ELSE /\ Fail(out)
                    /\ UNCHANGED <<extracted, reqs>>

\* the archive list is rendered only while not loading
selectHistoryItem ==
    /\ mounted
    /\ ~state.isLoading
    /\ edits < MaxEdits
    /\ edits' = edits + 1
    /\ \E i \in 1..Len(state.history) :
        /\ state.currentSummary # state.history[i]
        /\ state' = SelectUpdate(state, state.history[i])
    /\ UNCHANGED <<storage, mounted, pc, closure, extracted, net, reqs, resps,
                   nextId, submits>>

\* Discard on the SummaryCard, rendered only while not loading
deleteHistoryItem ==
    /\ mounted
    /\ ~state.isLoading
    /\ state.currentSummary # NoRecord
    /\ edits < MaxEdits
    /\ edits' = edits + 1
    /\ state' = DeleteUpdate(state, state.currentSummary.id)
    /\ storage' = SaveHistory(state'.history)
    /\ UNCHANGED <<mounted, pc, closure, extracted, net, reqs, resps,
                   nextId, submits>>

Next ==
    \/ Mount
    \/ EditUrl
    \/ SetModel
    \/ SetFormat
    \/ SetMaxWords
    \/ SubmitEmpty
    \/ SubmitInvalidUrl
    \/ Submit
    \/ NetworkHang
    \/ ExtractResponds
    \/ SummarizeResponds
    \/ selectHistoryItem
    \/ deleteHistoryItem

Spec == Init /\ [][Next]_vars

\* the event loop runs the continuation of an answered call; a call the
\* backend never answers (NetworkHang) has no continuation to run
FairSpec ==
    Spec /\ WF_vars(ExtractResponds) /\ WF_vars(SummarizeResponds)

\* ------------------------------------------------------------ properties
Last(s) == s[Len(s)]

\* the call that received response r failed
RespFailed(r) == ~r.delivered \/ r.status \notin 200..299 \/ ~r.json

\* a rate-limit or provider-unavailable failure
Retryable(r) == ~r.delivered \/ r.status \in {429, 503}

RecordsInState ==
    {state.history[i] : i \in 1..Len(state.history)}
    \cup (IF state.currentSummary = NoRecord THEN {} ELSE {state.currentSummary})

\* number of words of a summary text (texts are modelled by their size)
WordCount(summary) == summary

WithinBudget(words, maxWords) == words * 10 <= maxWords * 11

\* the last submission went through both calls and stored its record
LastSucceeded == pc = "idle" /\ Len(resps) = 2 /\ ~RespFailed(resps[2])

\* C1: the summary of every record respects the word budget with the 10%
\* tolerance, whatever text the backend returned.
C1_BudgetRespected ==
    \A r \in RecordsInState : WithinBudget(WordCount(r.summary), r.maxWords)

\* C2 (as stated): every submission issues exactly one extract request, then
\* at most one summarize request, sent only after extract succeeded and
\* carrying what extract returned with the submission's format, maxWords, model.
C2_RequestsOrdered ==
    /\ Len(reqs) <= 2
    /\ Len(reqs) = 2 =>
        /\ reqs[2].endpoint = "summarize"
        /\ Len(resps) >= 1
        /\ ~RespFailed(resps[1])
        /\ reqs[2].title = resps[1].title
        /\ reqs[2].content = resps[1].content
        /\ reqs[2].format = closure.format
        /\ reqs[2].maxWords = closure.maxWords
        /\ reqs[2].model = closure.selectedModel
    /\ Len(reqs) = 1 => (Len(resps) = 0 \/ (Len(resps) = 1 /\ RespFailed(resps[1])))

C2_ExactlyOneExtract ==
    submits > 0 =>
        /\ C2_RequestsOrdered
        /\ Len(reqs) >= 1
        /\ reqs[1] = ExtractRequest(closure.url)

\* C2 (amended): a submission whose url parses issues exactly one extract
\* request and a submission whose url does not parse issues none; the rest
\* of the ordering holds as stated.
C2_OneExtractWhenUrlParses ==
    submits > 0 =>
        /\ C2_RequestsOrdered
        /\ IF ParsesAsURL(closure.url)
           THEN Len(reqs) >= 1 /\ reqs[1] = ExtractRequest(closure.url)
           ELSE reqs = <<>> /\ resps = <<>>

C2_Witness ==
    /\ LastSucceeded
    /\ Len(reqs) = 2
    /\ resps[1].content > SnippetChars
    /\ state.currentSummary.id = nextId

\* C3: a submission ends in a result or in a failure; when its extract or
\* summarize call fails it ends with isLoading = false and an error message,
\* creates no record and leaves history, currentSummary and url unchanged.
C3_EndsInResultOrFailure ==
    [][(pc # "idle" /\ pc' = "idle") =>
        LET failed == RespFailed(Last(resps'))
        IN  /\ Len(resps') = Len(resps) + 1
            /\ ~state'.isLoading
            /\ failed =>
                /\ state'.error # NULL
                /\ nextId' = nextId
                /\ state'.history = state.history
                /\ state'.currentSummary = state.currentSummary
                /\ state'.url = state.url
                /\ storage' = storage
            /\ ~failed =>
                /\ pc = "summarize"
                /\ state'.error = NULL
                /\ nextId' = nextId + 1
                /\ state'.currentSummary.id = nextId'
                /\ state'.history[1] = state'.currentSummary
    ]_vars

C3_Witness ==
    /\ pc = "idle"
    /\ Len(resps) = 2
    /\ RespFailed(resps[2])
    /\ state.error # NULL
    /\ state.url = closure.url
    /\ Len(state.history) > 0

\* C4: when the extract call fails, no summarize request is issued, no
\* second extract request is issued, and the failure is reported at once.
C4_ExtractFailureTerminal ==
    (Len(resps) >= 1 /\ RespFailed(resps[1])) =>
        /\ reqs = <<ExtractRequest(closure.url)>>
        /\ Len(resps) = 1
        /\ pc = "idle"
        /\ net = "none"
        /\ ~state.isLoading
        /\ state.error # NULL

C4_Witness ==
    /\ Len(resps) = 1
    /\ RespFailed(resps[1])
    /\ resps[1].status = 503
    /\ state.error = ExtractDefaultMessage

\* C5: a rate-limit or provider-unavailable failure is surfaced only after
\* the call has been retried (at least two attempts of that call).
C5_RetriedBeforeSurfaced ==
    (pc = "idle" /\ Len(resps) >= 1 /\ Retryable(Last(resps))) =>
        Cardinality({i \in 1..Len(reqs) : reqs[i].endpoint = Last(reqs).endpoint}) >= 2

\* C6: every submission that entered the loading state eventually leaves it.
C6_LoadingEnds == state.isLoading ~> ~state.isLoading

\* C7: the summarize request and the stored record carry the url, format,
\* maxWords and model of the moment of submit, whatever was edited in flight.
C7_RequestImmutable ==
    /\ [](Len(reqs) >= 1 => reqs[1].url = closure.url)
    /\ [](Len(reqs) = 2 =>
            /\ reqs[2].format = closure.format
            /\ reqs[2].maxWords = closure.maxWords
            /\ reqs[2].model = closure.selectedModel)
    /\ [][pc # "idle" => closure' = closure]_vars
    /\ [][(pc = "idle" /\ pc' # "idle") =>
            closure' = [url |-> state.url, format |-> state.format,
                        maxWords |-> state.maxWords,
                        selectedModel |-> state.selectedModel]]_vars
    /\ [][nextId' # nextId =>
            LET r == state'.currentSummary
            IN  /\ r.url = closure.url /\ r.url = reqs[1].url
                /\ r.format = closure.format /\ r.format = reqs[2].format
                /\ r.maxWords = closure.maxWords /\ r.maxWords = reqs[2].maxWords
                /\ r.model = closure.selectedModel /\ r.model = reqs[2].model]_vars

C7_Witness ==
    /\ pc = "summarize"
    /\ net = "pending"
    /\ Len(reqs) = 2
    /\ state.url # closure.url
    /\ state.maxWords # closure.maxWords
    /\ reqs[2].maxWords = closure.maxWords

\* C8: maxWords is one of 150, 300, 500 in the state, in every summarize
\* request and in every stored record.
C8_BudgetEnumerated ==
    /\ state.maxWords \in WordBudgetOptions
    /\ \A i \in 1..Len(reqs) :
        reqs[i].endpoint = "summarize" => reqs[i].maxWords \in WordBudgetOptions
    /\ \A r \in RecordsInState : r.maxWords \in WordBudgetOptions

\* C9: an extract result with an empty title is not an error: the summarize
\* request is issued with the empty title and, when it succeeds, the record
\* is stored with the empty title.
C9_EmptyTitleNotAnError ==
    /\ []((Len(resps) >= 1 /\ ~RespFailed(resps[1]) /\ resps[1].title = "") =>
            /\ Len(reqs) = 2
            /\ reqs[2].title = ""
            /\ (pc = "idle" => Len(resps) = 2)
            /\ (state.error # NULL => (Len(resps) = 2 /\ RespFailed(resps[2]))))
    /\ [][(pc = "summarize" /\ resps[1].title = "" /\ pc' = "idle"
            /\ ~RespFailed(Last(resps'))) =>
            /\ state'.error = NULL
            /\ state'.currentSummary.title = ""
            /\ state'.currentSummary.id = nextId'
            /\ state'.history[1] = state'.currentSummary]_vars

C9_Witness ==
    /\ LastSucceeded
    /\ resps[1].title = ""
    /\ state.currentSummary.id = nextId
    /\ state.currentSummary.title = ""
    /\ state.history[1] = state.currentSummary

\* C10: a successful submission ends with isLoading = false, error = null,
\* an empty url field, the new record as currentSummary and as head of
\* history, followed by the previous records in order, cut at the cap;
\* selecting a history item changes currentSummary to that item and nothing else.
C10_HistoryTracking ==
    /\ [][nextId' # nextId =>
            LET r == state'.currentSummary
                h == state'.history
            IN  /\ ~state'.isLoading
                /\ state'.error = NULL
                /\ state'.url = ""
                /\ r.id = nextId'
                /\ \A i \in 1..Len(state.history) : state.history[i].id # r.id
                /\ Len(h) = Min(Len(state.history) + 1, HistoryCap)
                /\ h[1] = r
                /\ \A i \in 2..Len(h) : h[i] = state.history[i - 1]
                /\ state'.format = state.format
                /\ state'.maxWords = state.maxWords
                /\ state'.selectedModel = state.selectedModel]_vars
    /\ [][selectHistoryItem =>
            /\ \E i \in 1..Len(state.history) : state'.currentSummary = state.history[i]
            /\ state'.history = state.history
            /\ state'.url = state.url
            /\ state'.format = state.format
            /\ state'.maxWords = state.maxWords
            /\ state'.selectedModel = state.selectedModel
            /\ state'.error = state.error
            /\ state'.isLoading = state.isLoading
            /\ storage' = storage]_vars

C10_Witness ==
    /\ nextId = 1
    /\ Len(state.history) = HistoryCap
    /\ state.history[1].id = nextId
    /\ state.history[HistoryCap].id = 100 + HistoryCap - 1
    /\ state.currentSummary = state.history[2]
    /\ storage.value = state.history

\* C11: after a non-OK answer the error shown is the response's detail when
\* present and otherwise the fixed default message of the stage, for every
\* error-response body (JSON with detail, JSON without detail, not JSON).
C11_SpecificErrorMessage ==
    (pc = "idle" /\ Len(resps) >= 1 /\ Last(resps).delivered
        /\ Last(resps).status \notin 200..299) =>
        state.error =
            IF Last(resps).json /\ Last(resps).detail # ""
            THEN Last(resps).detail
            ELSE IF Len(resps) = 1 THEN ExtractDefaultMessage
                 ELSE SummarizeDefaultMessage

\* C12: a submission with an empty url changes nothing (no request, no
\* loading, error kept); a submission with a non-empty url that does not
\* parse issues no request, ends with isLoading = false and an error message
\* and leaves history and currentSummary unchanged.
C12_EmptyOrInvalidUrl ==
    /\ [][(pc = "idle" /\ state.url = "") =>
            /\ submits' = submits
            /\ reqs' = reqs
            /\ resps' = resps
            /\ pc' = "idle"
            /\ net' = net
            /\ state'.isLoading = state.isLoading
            /\ state'.error = state.error]_vars
    /\ [][(submits' # submits /\ state.url # GoodUrl) =>
            /\ state.url # ""
            /\ reqs' = <<>>
            /\ pc' = "idle"
            /\ net' = "none"
            /\ ~state'.isLoading
            /\ state'.error # NULL
            /\ state'.history = state.history
            /\ state'.currentSummary = state.currentSummary
            /\ nextId' = nextId
            /\ storage' = storage]_vars

C12_Witness ==
    /\ submits = 2
    /\ pc = "idle"
    /\ reqs = <<>>
    /\ closure.url = "not a url"
    /\ state.error = "Invalid URL"
    /\ ~state.isLoading
    /\ nextId = 1
    /\ state.currentSummary.id = nextId

\* C13: no handleSubmit run starts while one is in flight; at most one
\* request is outstanding, and only while loading; isLoading implies error = null.
C13_OneSubmissionInFlight ==
    /\ [](state.isLoading <=> pc # "idle")
    /\ [](state.isLoading => state.error = NULL)
    /\ [](net # "none" <=> pc # "idle")
    /\ [](Len(reqs) - Len(resps) = (IF pc = "idle" THEN 0 ELSE 1))
    /\ [][submits' # submits =>
            /\ ~state.isLoading
            /\ pc = "idle"
            /\ net = "none"
            /\ Len(reqs) = Len(resps)]_vars
    /\ [][(state.isLoading /\ state'.history # state.history) =>
            (nextId' = nextId + 1 /\ ~state'.isLoading)]_vars
    /\ [][(state.isLoading /\ state'.currentSummary # state.currentSummary) =>
            (nextId' = nextId + 1 /\ ~state'.isLoading)]_vars

C13_Witness ==
    /\ submits = 2
    /\ nextId = 1
    /\ pc = "summarize"
    /\ net = "pending"
    /\ state.isLoading
    /\ Len(reqs) = 2
    /\ Len(resps) = 1
    /\ state.url = GoodUrl

HistoryIds == {state.history[i].id : i \in 1..Len(state.history)}

\* C14: currentSummary is null or a record of history; ids in history are
\* distinct; a discard of the current summary sets it to null and removes
\* exactly that record; the record dropped by the cap is not the current summary.
C14_CurrentSummaryInHistory ==
    /\ [](state.currentSummary # NoRecord =>
            \E i \in 1..Len(state.history) :
                /\ state.history[i].id = state.currentSummary.id
                /\ state.history[i] = state.currentSummary)
    /\ [](Cardinality(HistoryIds) = Len(state.history))
    /\ [][deleteHistoryItem =>
            /\ state.currentSummary # NoRecord
            /\ state'.currentSummary = NoRecord
            /\ Len(state'.history) = Len(state.history) - 1
            /\ \A i \in 1..Len(state'.history) :
                /\ state'.history[i].id # state.currentSummary.id
                /\ \E j \in i..(i + 1) : state'.history[i] = state.history[j]
            /\ \A j \in 1..Len(state.history) :
                state.history[j].id # state.currentSummary.id =>
                    \E i \in 1..Len(state'.history) : state'.history[i] = state.history[j]]_vars
    /\ [][(nextId' # nextId /\ Len(state.history) = HistoryCap) =>
            /\ state'.currentSummary.id # state.history[HistoryCap].id
            /\ \A i \in 1..Len(state'.history) :
                state'.history[i].id # state.history[HistoryCap].id]_vars

C14_Witness ==
    /\ nextId = 2
    /\ state.currentSummary = NoRecord
    /\ Len(state.history) = HistoryCap - 1
    /\ state.history[1].id = 1
    /\ state.history[2].id = 101
    /\ storage.value = state.history

\* C15: mounting with a stored list H ends with state.history = H and the
\* stored value H, however often the mount effects run; once mounted the
\* stored value equals state.history, which holds at most 10 records.
C15_StorageAgrees ==
    /\ [][(~mounted /\ mounted') =>
            /\ storage'.present
            /\ storage'.value = state'.history
            /\ storage.present =>
                (state'.history = storage.value /\ storage' = storage)]_vars
    /\ [](mounted =>
            /\ storage.present
            /\ storage.value = state.history
            /\ Len(state.history) <= HistoryCap)

====
